---- MODULE Spec2Model ----
(***************************************************************************)
(* Model of the kirogpt message-handling pipeline (src/src/main.rs):       *)
(* handle_event classifies a gateway MessageCreate event, handle_message   *)
(* templates the user text, calls the completion service under a          *)
(* keepalive (typing) task, replies and persists the conversation.        *)
(*                                                                         *)
(* Strings are sequences of one-character strings, so that str::replace,   *)
(* str::contains, split_whitespace and join are computed as the standard   *)
(* library computes them.  An action runs a task from one suspension point *)
(* (.await) at which shared state is read or written to the next one; the  *)
(* code between, which touches only the task's locals, belongs to it.  A   *)
(* call the code guards with `?` may fail (the Err exit of the handler); a *)
(* call the code unwraps in a detached task (create_typing_trigger,        *)
(* delete_message) is taken to succeed.                                    *)
(***************************************************************************)
EXTENDS Integers, Sequences, FiniteSets, TLC

(***************************************************************************)
(* Bounds of the model.                                                    *)
(***************************************************************************)
\* number of gateway events dispatched, each spawned as its own task
MaxTasks == 2
\* number of whitespace-separated words of a templating input
MaxWords == 3

(***************************************************************************)
(* String literals of the source.                                          *)
(***************************************************************************)
Quote == <<"\"">>
CommaSpace == <<",", " ">>
ExpertMacro == <<"!", "e", "x", "p", "e", "r", "t">>
JbMacro == <<"!", "j", "b">>
UwuMacro == <<"!", "u", "w", "u">>
PingCommand == <<"!", "p", "i", "n", "g">>
PongText == <<"P", "o", "n", "g", "!">>
WarningText == <<"Y", "o", "u", " ", "n", "e", "e", "d", " ", "t", "o", " ", "p", "r", "o", "v", "i", "d", "e", " ", "a", " ", "n", "a", "m", "e", ".">>
FirstNamePlaceholder == <<"{", "F", "I", "R", "S", "T", "_", "N", "A", "M", "E", "}">>
FullNamePlaceholder == <<"{", "F", "U", "L", "L", "_", "N", "A", "M", "E", "}">>
LastNamePlaceholder == <<"{", "L", "A", "S", "T", "_", "N", "A", "M", "E", "}">>
NamePlaceholder == <<"{", "N", "A", "M", "E", "}">>
ExpertId == <<"e", "x", "p", "e", "r", "t">>
JbId == <<"j", "b">>
UwuId == <<"u", "w", "u">>
UserRole == <<"u", "s", "e", "r">>
AssistantRole == <<"a", "s", "s", "i", "s", "t", "a", "n", "t">>

(***************************************************************************)
(* Standard-library string functions, as the code uses them.               *)
(***************************************************************************)
Digit(d) == <<CASE d = 0 -> "0" [] d = 1 -> "1" [] d = 2 -> "2" [] d = 3 -> "3"
                [] d = 4 -> "4" [] d = 5 -> "5" [] d = 6 -> "6" [] d = 7 -> "7"
                [] d = 8 -> "8" [] d = 9 -> "9">>

RECURSIVE to_string(_)
\* u64::to_string / format!("{}", n): the decimal digits of n
to_string(n) == IF n < 10 THEN Digit(n) ELSE to_string(n \div 10) \o Digit(n % 10)

starts_with(s, pat) == Len(s) >= Len(pat) /\ SubSeq(s, 1, Len(pat)) = pat

RECURSIVE contains(_, _)
\* str::contains(pat)
contains(s, pat) ==
    IF Len(s) < Len(pat) THEN FALSE
    ELSE IF starts_with(s, pat) THEN TRUE
    ELSE contains(Tail(s), pat)

RECURSIVE replace(_, _, _)
\* str::replace(from, to): every non-overlapping match, left to right
replace(s, from, to) ==
    IF Len(s) < Len(from) THEN s
    ELSE IF starts_with(s, from)
         THEN to \o replace(SubSeq(s, Len(from) + 1, Len(s)), from, to)
         ELSE <<Head(s)>> \o replace(Tail(s), from, to)

RECURSIVE split_from(_, _)
\* the words of s, cur being the word read so far
split_from(s, cur) ==
    IF s = <<>> THEN (IF cur = <<>> THEN <<>> ELSE <<cur>>)
    ELSE IF Head(s) = " "
         THEN (IF cur = <<>> THEN <<>> ELSE <<cur>>) \o split_from(Tail(s), <<>>)
         ELSE split_from(Tail(s), Append(cur, Head(s)))

\* str::split_whitespace().collect::<Vec<_>>()
split_whitespace(s) == split_from(s, <<>>)

RECURSIVE join(_, _)
\* [&str]::join(sep)
join(words, sep) ==
    IF words = <<>> THEN <<>>
    ELSE IF Len(words) = 1 THEN words[1]
    ELSE words[1] \o sep \o join(Tail(words), sep)

(***************************************************************************)
(* Data of the program.                                                    *)
(***************************************************************************)
\* AppData.bot_id, the identifier of the bot user
bot_id == 7

\* Option<T>: None is the empty sequence, Some(x) is <<x>>
None == <<>>
Some(x) == <<x>>
is_some(o) == o # <<>>
unwrap(o) == o[1]

\* kirogpt::Message
Message(role, content) == [role |-> role, content |-> content]

\* kirogpt::ChatDocument
ChatDocument(id, messages) == [id |-> id, messages |-> messages]

\* kirogpt::PromptDocument
PromptDocument(prompt_id, prompt) == [prompt_id |-> prompt_id, prompt |-> prompt]

\* format!("<@{}>", app_data.bot_id)
MentionToken == <<"<", "@">> \o to_string(bot_id) \o <<">">>

UwuSnippet == <<"H", "i", " ">> \o FirstNamePlaceholder \o <<"/">>
                 \o FullNamePlaceholder \o <<"/">> \o LastNamePlaceholder

\* the prompts collection as loaded at startup
FullPrompts == << PromptDocument(ExpertId, <<"E">>),
                  PromptDocument(JbId, <<"J">>),
                  PromptDocument(UwuId, UwuSnippet) >>

WithoutUwu == SubSeq(FullPrompts, 1, 2)

WithoutExpert == Tail(FullPrompts)

WithoutJb == <<FullPrompts[1], FullPrompts[3]>>

PromptSnapshots == {FullPrompts, WithoutUwu, WithoutExpert, WithoutJb}

\* a prompts collection whose expert snippet has the !jb token in its text
NestedPrompts == << PromptDocument(ExpertId, <<"E", " ">> \o JbMacro),
                    PromptDocument(JbId, <<"J">>),
                    PromptDocument(UwuId, UwuSnippet) >>

(***************************************************************************)
(* Templating of the user text (handle_message, lines 271-355).            *)
(***************************************************************************)
\* all_prompts.iter().find(|prompt| prompt.prompt_id == id)
find_prompt(prompts, id) ==
    LET hits == {i \in DOMAIN prompts : prompts[i].prompt_id = id}
    IN  IF hits = {} THEN None
        ELSE Some(prompts[CHOOSE i \in hits : \A j \in hits : i <= j])

\* comma-space removal before mention removal
strip_message_comma_first(content) ==
    replace(replace(content, CommaSpace, <<>>), MentionToken, <<>>)

\* mention removal, then comma-space removal
strip_message(content) ==
    replace(replace(content, MentionToken, <<>>), CommaSpace, <<>>)

\* !expert expansion, then !jb expansion
expand_macros(text, expert_prompt, jb_prompt) ==
    replace(replace(text, ExpertMacro, expert_prompt.prompt), JbMacro, jb_prompt.prompt)

\* arguments.last()
last(words) == IF words = <<>> THEN None ELSE Some(words[Len(words)])

\* the name taken from the last argument: quotes removed, words re-joined
uwu_name(last_argument) ==
    join(split_whitespace(replace(last_argument, Quote, <<>>)), <<" ">>)

\* the uwu snippet with its three placeholders replaced by name
fill_uwu(prompt, name) ==
    replace(
        replace(
            replace(
                replace(prompt, FirstNamePlaceholder, NamePlaceholder),
                FullNamePlaceholder, NamePlaceholder),
            LastNamePlaceholder, NamePlaceholder),
        NamePlaceholder, name)

\* the !uwu rule on the text after !expert and !jb were expanded
apply_uwu(user_message, uwu_prompt) ==
    IF ~contains(user_message, UwuMacro)
    THEN [outcome |-> "ok", user_message |-> user_message]
    ELSE LET last_argument == last(split_whitespace(user_message))
         IN  IF ~is_some(last_argument)
             THEN [outcome |-> "err", user_message |-> user_message]
             ELSE IF contains(unwrap(last_argument), Quote)
             THEN [outcome |-> "ok",
                   user_message |->
                       replace(user_message, UwuMacro,
                               fill_uwu(uwu_prompt.prompt, uwu_name(unwrap(last_argument))))]
             ELSE [outcome |-> "warn", user_message |-> user_message]

\* a missing snippet made an error only for a text that has a macro token
template_text_lazy(content, prompts) ==
    LET expert_prompt == find_prompt(prompts, ExpertId)
        jb_prompt == find_prompt(prompts, JbId)
        uwu_prompt == find_prompt(prompts, UwuId)
        stripped == strip_message(content)
    IN  IF is_some(expert_prompt) /\ is_some(jb_prompt) /\ is_some(uwu_prompt)
        THEN apply_uwu(expand_macros(stripped, unwrap(expert_prompt), unwrap(jb_prompt)),
                       unwrap(uwu_prompt))
        ELSE IF \E macro \in {ExpertMacro, JbMacro, UwuMacro} : contains(stripped, macro)
        THEN [outcome |-> "err", user_message |-> stripped]
        ELSE [outcome |-> "ok", user_message |-> stripped]

\* the whole templating: "ok" with the user turn's text, "warn" (the
\* provide-a-name branch) or "err" (a snippet is missing)
template_text(content, prompts) ==
    LET expert_prompt == find_prompt(prompts, ExpertId)
        jb_prompt == find_prompt(prompts, JbId)
        uwu_prompt == find_prompt(prompts, UwuId)
    IN  IF ~is_some(expert_prompt) \/ ~is_some(jb_prompt) \/ ~is_some(uwu_prompt)
        THEN [outcome |-> "err", user_message |-> strip_message(content)]
        ELSE apply_uwu(expand_macros(strip_message(content),
                                     unwrap(expert_prompt), unwrap(jb_prompt)),
                       unwrap(uwu_prompt))

(***************************************************************************)
(* State.                                                                  *)
(***************************************************************************)
VARIABLES
    all_prompts,  \* AppData.all_prompts, the snapshot loaded at startup
    processing,   \* the in-flight registry, Arc<Mutex<Vec<u64>>>
    store,        \* the "messages" collection: a sequence of ChatDocument
    channel,      \* the bot's messages now visible on the platform
    pc,           \* pc[t]: where the task spawned for the t-th event stands
    local,        \* local[t]: the arguments and locals of the running handler
    finished,     \* finished[t]: the AtomicBool stop flag of task t's pipeline
    keepalive,    \* keepalive[t]: where the typing task spawned by t stands
    deleter,      \* deleter[t]: the task that deletes t's warning reply
    outcome,      \* outcome[t]: what handle_event returned, and from where
    effects       \* effects[t]: the external calls task t has made so far

vars == <<all_prompts, processing, store, channel, pc, local,
          finished, keepalive, deleter, outcome, effects>>

Tasks == 1..MaxTasks

\* identifier of a user other than the bot
other_user == bot_id + 1

\* the bot message that exists before the first event
FirstBotMessage == [id |-> 1, content |-> <<"y", "o">>, reply_to |-> 0]

\* the conversation stored for it
FirstConversation ==
    ChatDocument(to_string(FirstBotMessage.id),
                 <<Message(UserRole, <<"h", "i">>), Message(AssistantRole, <<"y", "o">>)>>)

\* the texts the completion service answers with
Responses == { <<"o", "k">> }

\* the platform gives every message a fresh identifier: the message of the
\* t-th event, and the message the bot creates while handling it (a handler
\* creates at most one: the pong, the warning or the assistant reply)
event_id(t) == 2 * t
created_id(t) == 2 * t + 1

NoMessage == [id |-> 0, content |-> <<>>, mention |-> FALSE, referenced_message |-> None]

\* the locals of a task that has not started or has returned
NoLocal == [message |-> NoMessage, reply |-> None,
            history |-> None, reply_id |-> None,
            messages |-> <<>>, user_message |-> <<>>, response |-> <<>>,
            bot_msg_id |-> 0]

NoOutcome == [result |-> "none", exit |-> "none"]

NoEffects == [sent |-> 0, completion |-> 0, inserts |-> 0, updates |-> 0,
              registry |-> 0]

NoDeleter == [at |-> "none", id |-> 0]

Init ==
    /\ all_prompts \in PromptSnapshots
    /\ processing = <<>>
    /\ store = <<FirstConversation>>
    /\ channel = {FirstBotMessage}
    /\ pc = [t \in Tasks |-> "idle"]
    /\ local = [t \in Tasks |-> NoLocal]
    /\ finished = [t \in Tasks |-> FALSE]
    /\ keepalive = [t \in Tasks |-> "none"]
    /\ deleter = [t \in Tasks |-> NoDeleter]
    /\ outcome = [t \in Tasks |-> NoOutcome]
    /\ effects = [t \in Tasks |-> NoEffects]

(***************************************************************************)
(* Helpers of the actions.                                                 *)
(***************************************************************************)
\* the handler returns Ok(()) or Err at the place named exit; its locals are
\* dropped
return(t, result, exit) ==
    /\ pc' = [pc EXCEPT ![t] = "done"]
    /\ local' = [local EXCEPT ![t] = NoLocal]
    /\ outcome' = [outcome EXCEPT ![t] = [result |-> result, exit |-> exit]]

\* the handler moves on to the suspension point named to, with locals loc
goto(t, to, loc) ==
    /\ pc' = [pc EXCEPT ![t] = to]
    /\ local' = [local EXCEPT ![t] = loc]
    /\ UNCHANGED outcome

\* message.referenced_message filtered by msg.author.id == app_data.bot_id
reply(message) ==
    IF is_some(message.referenced_message)
       /\ unwrap(message.referenced_message).author = bot_id
    THEN Some(unwrap(message.referenced_message).id)
    ELSE None

\* the push left out
registry_push_lost(registry, id) == registry

\* processing.lock().await.push(id)
registry_push(registry, id) == Append(registry, id)

\* processing.lock().await.contains(&id)
registry_contains(registry, id) == \E i \in DOMAIN registry : registry[i] = id

\* Vec::retain(|x| *x != id)
retain_not(registry, id) == SelectSeq(registry, LAMBDA x : x # id)

\* collection.find({"id": key}).try_collect(): the matching documents, in order
find(collection, key) == SelectSeq(collection, LAMBDA doc : doc.id = key)

\* the history left out of the outgoing list
flatten_nothing(docs) == <<>>

RECURSIVE flatten(_)
\* history.iter().map(|doc| doc.messages.clone()).flatten()
flatten(docs) == IF docs = <<>> THEN <<>> ELSE Head(docs).messages \o flatten(Tail(docs))

\* the insert made again after it was made
insert_one_twice(collection, doc) == Append(Append(collection, doc), doc)

\* collection.insert_one(doc)
insert_one(collection, doc) == Append(collection, doc)

\* the update with {"$set": {"messages": ...}} only
update_messages_only(collection, key, new_doc) ==
    LET hits == {i \in DOMAIN collection : collection[i].id = key}
    IN  IF hits = {} THEN collection
        ELSE [collection EXCEPT ![CHOOSE i \in hits : \A j \in hits : i <= j] =
                  [@ EXCEPT !.messages = new_doc.messages]]

\* collection.find_one_and_update({"id": key}, {"$set": new_doc}): the first
\* matching document gets every field of new_doc; none matching changes nothing
find_one_and_update(collection, key, new_doc) ==
    LET hits == {i \in DOMAIN collection : collection[i].id = key}
    IN  IF hits = {} THEN collection
        ELSE [collection EXCEPT ![CHOOSE i \in hits : \A j \in hits : i <= j] =
                  [@ EXCEPT !.id = new_doc.id, !.messages = new_doc.messages]]

\* http.create_message(channel_id).content(content).reply(reply_to)
created_message(id, content, reply_to) ==
    [id |-> id, content |-> content, reply_to |-> reply_to]

(***************************************************************************)
(* handle_event (lines 97-219) and the head of handle_message.  The events *)
(* are the messages of users other than the bot.                           *)
(***************************************************************************)
\* the incoming messages: a text, and whether the bot is among its mentions
Incoming == { [content |-> PingCommand, mention |-> TRUE],
              [content |-> <<"h", "i">>, mention |-> FALSE],
              [content |-> UwuMacro \o <<" ", "t">>, mention |-> TRUE],
              [content |-> PingCommand, mention |-> FALSE] }

\* the messages an incoming message can reference: none, a bot message of the
\* channel, or a message written by another user
Referable ==
    {None}
    \cup {Some([id |-> m.id, author |-> bot_id]) : m \in channel}
    \cup {Some([id |-> 0, author |-> other_user])}

\* the message as the handler reads it after its first suspension point: only
\* message.id, message.channel_id and message.content are read from there on
kept(message) == [message EXCEPT !.mention = FALSE, !.referenced_message = None]

\* handle_message up to its first suspension point (lines 241-355): the
\* outgoing list is started from the history and the user text is templated
enter_handle_message(t, message, history, reply_id) ==
    LET messages == IF is_some(history) THEN flatten(unwrap(history)) ELSE <<>>
        templated == template_text(message.content, all_prompts)
        entered == [local[t] EXCEPT !.message = message, !.history = history,
                                    !.reply_id = reply_id, !.messages = messages,
                                    !.user_message = templated.user_message]
    IN  CASE templated.outcome = "err" -> return(t, "Err", "no prompt")
          [] templated.outcome = "warn" -> goto(t, "send_warning", entered)
          [] templated.outcome = "ok" ->
               goto(t, "push_processing",
                    [entered EXCEPT
                        !.messages = Append(messages,
                                            Message(UserRole, templated.user_message))])

\* the mention looked at before the reply
classify_mention_first(t, message) ==
    IF message.mention
    THEN enter_handle_message(t, message, None, None)
    ELSE IF is_some(reply(message))
    THEN goto(t, "check_processing",
              [local[t] EXCEPT !.message = message, !.reply = reply(message)])
    ELSE IF message.content = PingCommand
    THEN goto(t, "send_pong", [local[t] EXCEPT !.message = message])
    ELSE return(t, "Ok", "ignored")

\* the ping command looked at before the reply and the mention
classify_ping_first(t, message) ==
    IF message.content = PingCommand
    THEN goto(t, "send_pong", [local[t] EXCEPT !.message = message])
    ELSE IF is_some(reply(message))
    THEN goto(t, "check_processing",
              [local[t] EXCEPT !.message = message, !.reply = reply(message)])
    ELSE IF message.mention
    THEN enter_handle_message(t, message, None, None)
    ELSE return(t, "Ok", "ignored")

\* the task of an event runs from the head of handle_event to its first
\* suspension point (lines 103-121, 183-197, 209)
classify(t, message) ==
    IF is_some(reply(message))
    THEN goto(t, "check_processing",
              [local[t] EXCEPT !.message = message, !.reply = reply(message)])
    ELSE IF message.mention
    THEN enter_handle_message(t, message, None, None)
    ELSE IF message.content = PingCommand
    THEN goto(t, "send_pong", [local[t] EXCEPT !.message = message])
    ELSE return(t, "Ok", "ignored")

\* an event with a text of texts is received and its task is spawned; tasks
\* are numbered in the order of their events
receive(t, texts) ==
    /\ pc[t] = "idle"
    /\ \A u \in Tasks : u < t => pc[u] # "idle"
    /\ \E incoming \in texts, referenced \in Referable :
          classify(t, [id |-> event_id(t), content |-> incoming.content,
                       mention |-> incoming.mention,
                       referenced_message |-> referenced])
    /\ UNCHANGED <<all_prompts, processing, store, channel, finished, keepalive,
                   deleter, effects>>

\* main loop (lines 67-90) and handle_event
handle_event(t) == receive(t, Incoming)

\* lines 128-131: the in-flight check on the referenced bot message
check_processing(t) ==
    /\ pc[t] = "check_processing"
    /\ IF registry_contains(processing, unwrap(local[t].reply))
       THEN return(t, "Ok", "already processing")
       ELSE goto(t, "find_history", [local[t] EXCEPT !.message = kept(@)])
    /\ UNCHANGED <<all_prompts, processing, store, channel, finished, keepalive, deleter, effects>>

\* lines 133-175: the history lookup, which may fail, and on a non-empty
\* history the call of handle_message
find_history(t) ==
    /\ pc[t] = "find_history"
    /\ \E store_ok \in BOOLEAN :
          LET reply_id == to_string(unwrap(local[t].reply))
              history == find(store, reply_id)
          IN  IF ~store_ok THEN return(t, "Err", "find failed")
              ELSE IF history = <<>> THEN return(t, "Ok", "history empty")
              ELSE enter_handle_message(t, local[t].message, Some(history), Some(reply_id))
    /\ UNCHANGED <<all_prompts, processing, store, channel, finished, keepalive, deleter, effects>>

\* lines 209-213: the ping command
send_pong(t) ==
    /\ pc[t] = "send_pong"
    /\ \E send_ok \in BOOLEAN :
          IF send_ok
          THEN /\ channel' = channel \cup {created_message(created_id(t), PongText, 0)}
               /\ effects' = [effects EXCEPT ![t].sent = @ + 1]
               /\ return(t, "Ok", "pong")
          ELSE /\ return(t, "Err", "pong failed")
               /\ UNCHANGED <<channel, effects>>
    /\ UNCHANGED <<all_prompts, processing, store, finished, keepalive, deleter>>

(***************************************************************************)
(* The rest of handle_message (lines 334-465).                             *)
(***************************************************************************)
\* lines 334-348: the provide-a-name warning and the task that deletes it
send_warning(t) ==
    /\ pc[t] = "send_warning"
    /\ \E send_ok \in BOOLEAN :
          IF send_ok
          THEN /\ channel' = channel \cup
                      {created_message(created_id(t), WarningText, local[t].message.id)}
               /\ effects' = [effects EXCEPT ![t].sent = @ + 1]
               /\ deleter' = [deleter EXCEPT ![t] = [at |-> "sleep", id |-> created_id(t)]]
               /\ return(t, "Ok", "warned")
          ELSE /\ return(t, "Err", "warning failed")
               /\ UNCHANGED <<channel, effects, deleter>>
    /\ UNCHANGED <<all_prompts, processing, store, finished, keepalive>>

\* the delete given the id of the user's message instead of the warning's
delete_original(t) ==
    /\ deleter[t].at = "sleep"
    /\ channel' = {m \in channel : m.id # event_id(t)}
    /\ deleter' = [deleter EXCEPT ![t].at = "done"]
    /\ UNCHANGED <<all_prompts, processing, store, pc, local,
                   finished, keepalive, outcome, effects>>

\* lines 340-346: after the sleep, the warning is deleted
delete_warning(t) ==
    /\ deleter[t].at = "sleep"
    /\ channel' = {m \in channel : m.id # deleter[t].id}
    /\ deleter' = [deleter EXCEPT ![t].at = "done"]
    /\ UNCHANGED <<all_prompts, processing, store, pc, local,
                   finished, keepalive, outcome, effects>>

\* lines 359-386: the stop flag is created, message.id enters the registry,
\* the keepalive task is spawned and the completion request is sent
push_processing(t) ==
    /\ pc[t] = "push_processing"
    /\ finished' = [finished EXCEPT ![t] = FALSE]
    /\ processing' = registry_push(processing, local[t].message.id)
    /\ keepalive' = [keepalive EXCEPT ![t] = "load"]
    /\ effects' = [effects EXCEPT ![t].registry = @ + 1, ![t].completion = @ + 1]
    /\ goto(t, "await_completion", [local[t] EXCEPT !.message = kept(@)])
    /\ UNCHANGED <<all_prompts, store, channel, deleter>>

\* a transport failure reported to the user with a message
completion_returns_reports(t) ==
    /\ pc[t] = "await_completion"
    /\ \E transport_ok \in BOOLEAN :
          IF transport_ok
          THEN /\ finished' = [finished EXCEPT ![t] = TRUE]
               /\ goto(t, "retain_processing", local[t])
               /\ UNCHANGED <<channel, effects>>
          ELSE /\ channel' = channel \cup
                      {created_message(created_id(t), <<"e", "r", "r", "o", "r">>,
                                       local[t].message.id)}
               /\ effects' = [effects EXCEPT ![t].sent = @ + 1]
               /\ return(t, "Err", "completion failed")
               /\ UNCHANGED finished
    /\ UNCHANGED <<all_prompts, processing, store, keepalive, deleter>>

\* lines 378-388: send().await? returns; on success the stop flag is set
completion_returns(t) ==
    /\ pc[t] = "await_completion"
    /\ \E transport_ok \in BOOLEAN :
          IF transport_ok
          THEN /\ finished' = [finished EXCEPT ![t] = TRUE]
               /\ goto(t, "retain_processing", local[t])
          ELSE /\ return(t, "Err", "completion failed")
               /\ UNCHANGED finished
    /\ UNCHANGED <<all_prompts, processing, store, channel, keepalive, deleter, effects>>

\* lines 390-403: message.id leaves the registry, the body is decoded and
\* the last choice is taken
retain_processing(t) ==
    /\ pc[t] = "retain_processing"
    /\ processing' = retain_not(processing, local[t].message.id)
    /\ \/ \E response \in Responses :
             goto(t, "send_reply", [local[t] EXCEPT !.response = response])
       \/ return(t, "Err", "undecodable")
       \/ return(t, "Err", "no choices")
    /\ UNCHANGED <<all_prompts, store, channel, finished,
                   keepalive, deleter, effects>>

\* lines 407-418: the assistant reply is sent as a reply to the user's message
send_reply(t) ==
    /\ pc[t] = "send_reply"
    /\ \E send_ok \in BOOLEAN :
          IF send_ok
          THEN /\ channel' = channel \cup
                      {created_message(created_id(t), local[t].response, local[t].message.id)}
               /\ effects' = [effects EXCEPT ![t].sent = @ + 1]
               /\ goto(t, "persist",
                       [local[t] EXCEPT
                           !.bot_msg_id = created_id(t),
                           !.messages = Append(@, Message(AssistantRole, local[t].response))])
          ELSE /\ return(t, "Err", "reply failed")
               /\ UNCHANGED <<channel, effects>>
    /\ UNCHANGED <<all_prompts, processing, store, finished, keepalive, deleter>>

\* the document both store calls are given (lines 426-429, 446-449)
new_doc(bot_msg_id, messages) == ChatDocument(to_string(bot_msg_id), messages)

\* the insert guarded by history.is_some() instead of history.is_none()
persisted_insert_inverted(collection, history, reply_id, doc) ==
    LET inserted == IF is_some(history) THEN insert_one(collection, doc) ELSE collection
    IN  IF is_some(reply_id)
        THEN find_one_and_update(inserted, unwrap(reply_id), doc)
        ELSE inserted

\* the store after lines 431-462
persisted(collection, history, reply_id, doc) ==
    LET inserted == IF ~is_some(history) THEN insert_one(collection, doc) ELSE collection
    IN  IF is_some(reply_id)
        THEN find_one_and_update(inserted, unwrap(reply_id), doc)
        ELSE inserted

\* lines 413-464: insert for a new conversation, update for a continuation;
\* reading the created message, connecting to the store and the store call
\* may fail
persist(t) ==
    /\ pc[t] = "persist"
    /\ \E store_ok \in BOOLEAN :
          IF store_ok
          THEN /\ store' = persisted(store, local[t].history, local[t].reply_id,
                                     new_doc(local[t].bot_msg_id, local[t].messages))
               /\ effects' = [effects EXCEPT
                                 ![t].inserts = @ + (IF is_some(local[t].history) THEN 0 ELSE 1),
                                 ![t].updates = @ + (IF is_some(local[t].reply_id) THEN 1 ELSE 0)]
               /\ return(t, "Ok", "persisted")
          ELSE /\ return(t, "Err", "persist failed")
               /\ UNCHANGED <<store, effects>>
    /\ UNCHANGED <<all_prompts, processing, channel, finished,
                   keepalive, deleter>>

(***************************************************************************)
(* The keepalive task (lines 363-376).                                     *)
(***************************************************************************)
\* the loop going on whatever the stop flag says
keepalive_load_ignores_flag(t) ==
    /\ keepalive[t] = "load"
    /\ keepalive' = [keepalive EXCEPT ![t] = "typing"]
    /\ UNCHANGED <<all_prompts, processing, store, channel, pc,
                   local, finished, deleter, outcome, effects>>

\* line 368: the loop condition reads the stop flag
keepalive_load(t) ==
    /\ keepalive[t] = "load"
    /\ keepalive' = [keepalive EXCEPT ![t] = IF finished[t] THEN "stopped" ELSE "typing"]
    /\ UNCHANGED <<all_prompts, processing, store, channel, pc,
                   local, finished, deleter, outcome, effects>>

\* lines 369-373: the typing indicator is sent and the sleep is slept
keepalive_typing(t) ==
    /\ keepalive[t] = "typing"
    /\ keepalive' = [keepalive EXCEPT ![t] = "load"]
    /\ UNCHANGED <<all_prompts, processing, store, channel, pc,
                   local, finished, deleter, outcome, effects>>

(***************************************************************************)
(* Specification.                                                          *)
(***************************************************************************)
Next ==
    \E t \in Tasks :
        \/ handle_event(t)
        \/ check_processing(t)
        \/ find_history(t)
        \/ send_pong(t)
        \/ send_warning(t)
        \/ delete_warning(t)
        \/ push_processing(t)
        \/ completion_returns(t)
        \/ retain_processing(t)
        \/ send_reply(t)
        \/ persist(t)
        \/ keepalive_load(t)
        \/ keepalive_typing(t)

Spec == Init /\ [][Next]_vars

\* tokio runs every spawned task: the task that deletes a warning is not
\* left waiting for ever once its sleep is over, and the keepalive task is
\* not left waiting for ever at its load of the flag or at its typing call
FairSpec ==
    /\ Spec
    /\ \A t \in Tasks :
          /\ WF_vars(delete_warning(t))
          /\ WF_vars(keepalive_load(t))
          /\ WF_vars(keepalive_typing(t))

(***************************************************************************)
(* Templating alone: one event whose text is any sequence of at most       *)
(* MaxWords of the words below, separated by single spaces, under any of   *)
(* the prompts collections.                                                *)
(***************************************************************************)
TemplateInit ==
    /\ all_prompts \in PromptSnapshots \cup {NestedPrompts}
    /\ processing = <<>>
    /\ store = <<FirstConversation>>
    /\ channel = {FirstBotMessage}
    /\ pc = [t \in Tasks |-> "idle"]
    /\ local = [t \in Tasks |-> NoLocal]
    /\ finished = [t \in Tasks |-> FALSE]
    /\ keepalive = [t \in Tasks |-> "none"]
    /\ deleter = [t \in Tasks |-> NoDeleter]
    /\ outcome = [t \in Tasks |-> NoOutcome]
    /\ effects = [t \in Tasks |-> NoEffects]

TemplateWords == { UwuMacro, ExpertMacro, JbMacro, MentionToken,
                   <<"t">>, <<"a", ",">>, <<"b">>,
                   <<"a", ",">> \o MentionToken,
                   <<"!", "j", ",">>,
                   <<"\"", "J", "a", "n", "e", "\"">>,
                   <<"\"", "J", "a", "n", "e">>,
                   <<"D", "o", "e", "\"">> }

RECURSIVE texts_of(_)
\* the texts of exactly n words
texts_of(n) ==
    IF n = 1 THEN TemplateWords
    ELSE {text \o <<" ">> \o word : text \in texts_of(n - 1), word \in TemplateWords}

TemplateInputs ==
    {[content |-> text, mention |-> TRUE] :
         text \in UNION {texts_of(n) : n \in 1..MaxWords}}

\* the first event is a message with one of these texts
template_input(t) == t = 1 /\ receive(t, TemplateInputs)

NextTemplate == \E t \in Tasks : template_input(t)

TemplateSpec == TemplateInit /\ [][NextTemplate]_vars

(***************************************************************************)
(* Properties.                                                             *)
(***************************************************************************)
\* task t is past the in-flight check of handle_event, or inside
\* handle_message, and has not returned
InPipeline(t) ==
    pc[t] \in {"find_history", "send_warning", "push_processing", "await_completion",
               "retain_processing", "send_reply", "persist"}

\* task t is inside handle_message and has not returned
InHandleMessage(t) ==
    pc[t] \in {"send_warning", "push_processing", "await_completion",
               "retain_processing", "send_reply", "persist"}

\* task t returns Ok from the persistence step, as a new conversation or as a
\* continuation
NewPersisted(t) ==
    /\ pc[t] = "persist" /\ pc'[t] = "done" /\ outcome'[t].result = "Ok"
    /\ ~is_some(local[t].reply)

ContinuationPersisted(t) ==
    /\ pc[t] = "persist" /\ pc'[t] = "done" /\ outcome'[t].result = "Ok"
    /\ is_some(local[t].reply)

\* the user turn and the assistant turn of task t
UserTurn(t) ==
    [role |-> UserRole,
     content |-> template_text(local[t].message.content, all_prompts).user_message]

AssistantTurn(t) == [role |-> AssistantRole, content |-> local[t].response]

\* C1: two events that reply to the same bot message are never both past the
\* in-flight check and inside the pipeline (handle_message) at the same time.
C1_OneBeginPerId ==
    \A t, u \in Tasks :
        (t # u /\ InHandleMessage(t) /\ InHandleMessage(u) /\ is_some(local[t].reply))
            => local[t].reply # local[u].reply

\* C2: when a handler has returned, on whatever exit path, the identifier it
\* added to the in-flight registry is no longer there.
C2_ReleasedAtEnd ==
    \A t \in Tasks : pc[t] = "done" => ~registry_contains(processing, event_id(t))

C4_StoppedAfterFailure ==
    \A t \in Tasks :
        (pc[t] = "done" /\ outcome[t].exit \in {"completion failed", "undecodable"})
            => /\ finished[t]
               /\ effects[t].sent = 0
               /\ effects[t].inserts = 0
               /\ effects[t].updates = 0

\* C5: the persistence step of a successful NEW pipeline appends exactly one
\* Conversation to the store, keyed by the identifier of the bot reply just
\* created, with messages [user turn with the templated text, assistant turn
\* with the reply text], and makes no update.
C5_NewInsertsOnce ==
    [][\A t \in Tasks :
          NewPersisted(t) =>
              /\ store' = Append(store, [id |-> to_string(local[t].bot_msg_id),
                                         messages |-> <<UserTurn(t), AssistantTurn(t)>>])
              /\ \E m \in channel :
                    /\ m.id = local[t].bot_msg_id
                    /\ m.reply_to = local[t].message.id
                    /\ m.content = local[t].response
              /\ effects'[t].inserts = 1
              /\ effects'[t].updates = 0]_vars

C5_Witness ==
    \E t \in Tasks :
        /\ outcome[t].exit = "persisted"
        /\ effects[t].inserts = 1
        /\ \E i \in DOMAIN store : store[i].id = to_string(created_id(t))

\* C6 as stated: the Conversation a successful CONTINUATION updates is still
\* keyed by the original anchor id afterwards.
C6_AnchorUnchanged ==
    [][\A t \in Tasks :
          ContinuationPersisted(t) =>
              \A i \in DOMAIN store :
                  store[i].id = to_string(unwrap(local[t].reply)) => store'[i].id = store[i].id]_vars

\* C6 as amended: the Conversation a successful CONTINUATION updates is
\* re-keyed: afterwards its anchor id is the identifier of the bot reply just
\* created, its messages are the outgoing list, no Conversation is keyed by
\* the original anchor id, and every other Conversation is unchanged.
C6_AnchorMoves ==
    [][\A t \in Tasks :
          ContinuationPersisted(t) =>
              /\ DOMAIN store' = DOMAIN store
              /\ \A i \in DOMAIN store :
                    IF store[i].id = to_string(unwrap(local[t].reply))
                    THEN /\ store'[i].id = to_string(local[t].bot_msg_id)
                         /\ store'[i].messages = local[t].messages
                    ELSE store'[i] = store[i]
              /\ \A i \in DOMAIN store' :
                    store'[i].id # to_string(unwrap(local[t].reply))]_vars

C6_Witness ==
    \E t \in Tasks :
        /\ outcome[t].exit = "persisted"
        /\ effects[t].updates = 1
        /\ \E i \in DOMAIN store : store[i].id = to_string(created_id(t))
        /\ \A i \in DOMAIN store : store[i].id # FirstConversation.id

\* C7: a successful CONTINUATION inserts nothing, and the Conversation its
\* update matches gets as messages its stored messages, in order and
\* unaltered, then the user turn with the templated text, then the assistant
\* turn with the reply text.
C7_HistoryExtended ==
    [][\A t \in Tasks :
          ContinuationPersisted(t) =>
              /\ Len(store') = Len(store)
              /\ effects'[t].inserts = 0
              /\ \A i \in DOMAIN store :
                    store[i].id = to_string(unwrap(local[t].reply)) =>
                        store'[i].messages =
                            store[i].messages \o <<UserTurn(t), AssistantTurn(t)>>]_vars

C7_Witness ==
    \E t \in Tasks :
        /\ outcome[t].exit = "persisted"
        /\ effects[t].updates = 1
        /\ \E i \in DOMAIN store :
              /\ Len(store[i].messages) = Len(FirstConversation.messages) + 2
              /\ SubSeq(store[i].messages, 1, 2) = FirstConversation.messages
              /\ store[i].messages[4].role = AssistantRole

\* C8: an event that replies to a bot message takes the reply path whether or
\* not it mentions the bot, has made no external call up to the history
\* lookup, and when the lookup finds no Conversation the handler returns with
\* the store, the channel and the registry unchanged, no completion call made
\* and no task spawned.
C8_NoHistoryNoEffect ==
    /\ [](\A t \in Tasks :
             is_some(reply(local[t].message)) => pc[t] = "check_processing")
    /\ [](\A t \in Tasks :
             pc[t] \in {"check_processing", "find_history"} =>
                 /\ effects[t] = NoEffects
                 /\ keepalive[t] = "none"
                 /\ deleter[t] = NoDeleter)
    /\ [][\A t \in Tasks :
             (/\ pc[t] = "find_history"
              /\ pc'[t] # "find_history"
              /\ find(store, to_string(unwrap(local[t].reply))) = <<>>) =>
                 /\ pc'[t] = "done"
                 /\ effects'[t] = NoEffects
                 /\ store' = store
                 /\ channel' = channel
                 /\ processing' = processing
                 /\ keepalive' = keepalive
                 /\ deleter' = deleter]_vars

C8_Witness ==
    \E t \in Tasks :
        /\ outcome[t].exit = "history empty"
        /\ effects[t] = NoEffects
        /\ store # <<>>

\* the post-expansion text of content has !uwu and its last word has no quote
UwuWithoutName(content) ==
    /\ \A id \in {ExpertId, JbId, UwuId} : is_some(find_prompt(all_prompts, id))
    /\ LET text == expand_macros(strip_message(content),
                                 unwrap(find_prompt(all_prompts, ExpertId)),
                                 unwrap(find_prompt(all_prompts, JbId)))
           words == split_whitespace(text)
       IN  /\ contains(text, UwuMacro)
           /\ ~contains(words[Len(words)], Quote)

QuotedNames == { <<"J", "a", "n", "e">>,
                 <<"J", "a", "n", "e", " ", "D", "o", "e">> }

uwu_call(name) == UwuMacro \o <<" ">> \o Quote \o name \o Quote

\* the uwu snippet with each of its placeholders replaced by name
filled_in(name) ==
    replace(replace(replace(UwuSnippet, FirstNamePlaceholder, name),
                    FullNamePlaceholder, name),
            LastNamePlaceholder, name)

\* C10: for the text !uwu "name", the templated text is the uwu snippet with
\* every placeholder replaced by the whole quoted name, quotes removed; for
\* "Jane Doe" it is Hi Jane Doe/Jane Doe/Jane Doe.
C10_FullQuotedName ==
    \A t \in Tasks :
        \A name \in QuotedNames :
            (/\ pc[t] = "push_processing"
             /\ all_prompts = FullPrompts
             /\ local[t].message.content = uwu_call(name)) =>
                local[t].user_message = filled_in(name)

\* every snippet the templating looks up is in the loaded snapshot
AllSnippets ==
    \A id \in {ExpertId, JbId, UwuId} : is_some(find_prompt(all_prompts, id))

\* the text !expert !jb
ExpertThenJb == ExpertMacro \o <<" ">> \o JbMacro

\* C11: the templated text is the input after mention removal, then
\* comma-space removal, then !expert replaced by the text of the snippet
\* "expert", then !jb replaced by the text of the snippet "jb", each applied
\* to the result of the one before; with expert = "E" and jb = "J" the text
\* !expert !jb becomes E J.
C11_FixedOrder ==
    \A t \in Tasks :
        (pc[t] \in {"push_processing", "send_warning"} /\ AllSnippets) =>
            LET content == local[t].message.content
                no_mention == replace(content, MentionToken, <<>>)
                no_comma == replace(no_mention, CommaSpace, <<>>)
                with_expert == replace(no_comma, ExpertMacro,
                                       unwrap(find_prompt(all_prompts, ExpertId)).prompt)
                with_jb == replace(with_expert, JbMacro,
                                   unwrap(find_prompt(all_prompts, JbId)).prompt)
            IN  /\ (pc[t] = "send_warning" \/ ~contains(with_jb, UwuMacro)) =>
                       local[t].user_message = with_jb
                /\ (all_prompts = FullPrompts /\ content = ExpertThenJb) =>
                       /\ pc[t] = "push_processing"
                       /\ local[t].user_message = <<"E", " ", "J">>

C11_Witness ==
    \E t \in Tasks :
        /\ pc[t] = "push_processing"
        /\ all_prompts = FullPrompts
        /\ local[t].message.content = ExpertThenJb
        /\ local[t].user_message = <<"E", " ", "J">>

\* content has none of the macro tokens and no mention of the bot
NoMacroNoMention(content) ==
    /\ ~contains(content, ExpertMacro)
    /\ ~contains(content, JbMacro)
    /\ ~contains(content, UwuMacro)
    /\ ~contains(content, MentionToken)

\* C12: for a text with no macro token and no mention token, the templated
\* user turn is the text with every ", " removed and nothing else changed.
C12_OnlyCommaSpaceRemoved ==
    \A t \in Tasks :
        (pc[t] = "push_processing" /\ NoMacroNoMention(local[t].message.content)) =>
            local[t].user_message = replace(local[t].message.content, CommaSpace, <<>>)

\* the exits of a failed run: the history lookup, templating, the completion
\* call, the response, the reply and persistence
FailureExits ==
    {"find failed", "history empty", "no prompt", "completion failed",
     "undecodable", "no choices", "reply failed", "persist failed"}

\* C13 as stated: a run that ended in failure, persistence failure included,
\* has sent no message to the user.
C13_NothingSentOnFailure ==
    \A t \in Tasks :
        (pc[t] = "done" /\ outcome[t].exit \in FailureExits) =>
            /\ effects[t].sent = 0
            /\ \A m \in channel : m.id # created_id(t)

\* C13 as amended: a run that failed before or at the sending of the assistant
\* reply has sent no message; a run that failed in persistence has sent one
\* message, the assistant reply to the user's message, and nothing else; the
\* warning is in the channel only for a run that took the warning exit, and
\* no other text is ever sent.
C13_SilentUntilReply ==
    /\ \A t \in Tasks :
          pc[t] = "done" =>
              /\ outcome[t].exit \in (FailureExits \ {"persist failed"}) \cup {"warning failed"} =>
                     /\ effects[t].sent = 0
                     /\ \A m \in channel : m.id # created_id(t)
              /\ outcome[t].exit = "persist failed" =>
                     /\ effects[t].sent = 1
                     /\ \E m \in channel :
                           /\ m.id = created_id(t)
                           /\ m.content \in Responses
                           /\ m.reply_to = event_id(t)
              /\ (\E m \in channel : m.id = created_id(t) /\ m.content = WarningText) =>
                     outcome[t].exit = "warned"
    /\ \A m \in channel :
          m.content \in Responses \cup {PongText, WarningText, FirstBotMessage.content}

C13_Witness ==
    \E t, u \in Tasks :
        /\ outcome[t].exit = "persist failed"
        /\ effects[t].sent = 1
        /\ \E m \in channel : m.id = created_id(t) /\ m.content \in Responses
        /\ outcome[u].exit = "completion failed"
        /\ effects[u].sent = 0

\* C14: no two Conversations of the store have the same anchor id, whatever
\* inserts and updates were made and however they interleaved.
C14_UniqueAnchor ==
    \A i, j \in DOMAIN store : i # j => store[i].id # store[j].id

C14_Witness ==
    \E t, u \in Tasks :
        /\ outcome[t].exit = "persisted" /\ effects[t].inserts = 1
        /\ outcome[u].exit = "persisted" /\ effects[u].updates = 1
        /\ Len(store) = 2
        /\ \E i \in DOMAIN store : store[i].id = to_string(created_id(t))
        /\ \E i \in DOMAIN store : store[i].id = to_string(created_id(u))

\* task t has loaded the history of the Conversation it continues and has
\* neither updated it nor returned
Continuing(t) == InHandleMessage(t) /\ is_some(local[t].reply_id)

\* C15: while one pipeline is between its load of a Conversation's history
\* and its update of the store, no other pipeline loads the history of the
\* same Conversation or updates it.
C15_NoOverlappingContinuation ==
    [][\A t, u \in Tasks :
          (t # u /\ Continuing(t) /\ local[u].reply = local[t].reply) =>
              /\ ~(/\ pc[u] = "find_history"
                   /\ pc'[u] \in {"send_warning", "push_processing"})
              /\ ~(/\ pc[u] = "persist"
                   /\ pc'[u] = "done"
                   /\ outcome'[u].result = "Ok")]_vars

\* C16: text brought in by expanding !expert is not itself expanded: for a
\* text that, mention and comma-space removed, has neither !jb nor !uwu, the
\* templated text is that text with !expert replaced by the expert snippet's
\* text, a !jb or !uwu of the snippet standing in it literally, and the !uwu
\* rule is not applied.
C16_ExpansionNotRecursive ==
    \A t \in Tasks :
        (/\ pc[t] \in {"push_processing", "send_warning"}
         /\ AllSnippets
         /\ ~contains(strip_message(local[t].message.content), JbMacro)
         /\ ~contains(strip_message(local[t].message.content), UwuMacro)) =>
            /\ pc[t] = "push_processing"
            /\ local[t].user_message =
                   replace(strip_message(local[t].message.content), ExpertMacro,
                           unwrap(find_prompt(all_prompts, ExpertId)).prompt)

\* C17: an event takes one path, the reply to the bot before the mention and
\* the mention before the ping command: a task is at the in-flight check
\* exactly when its event replies to a bot message; it enters a NEW pipeline
\* from the event only when the event mentions the bot and replies to no bot
\* message; it sends the pong only for the ping command with neither; a
\* pipeline of a reply to the bot has a history and an anchor and inserts
\* nothing; and a task that ignored its event has made no send, no completion
\* call, no store write and no registry change, and changed nothing shared.
C17_OnePath ==
    /\ [](\A t \in Tasks :
             pc[t] = "check_processing" <=> is_some(reply(local[t].message)))
    /\ [](\A t \in Tasks :
             pc[t] = "send_pong" =>
                 /\ local[t].message.content = PingCommand
                 /\ ~local[t].message.mention
                 /\ effects[t] = NoEffects)
    /\ [](\A t \in Tasks :
             (InHandleMessage(t) /\ is_some(local[t].reply)) =>
                 /\ is_some(local[t].history)
                 /\ is_some(local[t].reply_id)
                 /\ effects[t].inserts = 0)
    /\ [](\A t \in Tasks :
             outcome[t].exit \in {"ignored", "pong", "pong failed"} =>
                 /\ effects[t].completion = 0
                 /\ effects[t].inserts = 0
                 /\ effects[t].updates = 0
                 /\ effects[t].registry = 0
                 /\ effects[t].sent = (IF outcome[t].exit = "pong" THEN 1 ELSE 0)
                 /\ keepalive[t] = "none"
                 /\ deleter[t] = NoDeleter)
    /\ [][\A t \in Tasks :
             pc[t] = "idle" =>
                 /\ pc'[t] \in {"push_processing", "send_warning"} =>
                        /\ local'[t].message.mention
                        /\ ~is_some(local'[t].reply)
                        /\ ~is_some(local'[t].history)
                        /\ ~is_some(local'[t].reply_id)
                 /\ outcome'[t].exit = "ignored" =>
                        /\ store' = store
                        /\ channel' = channel
                        /\ processing' = processing
                        /\ keepalive' = keepalive
                        /\ deleter' = deleter
                        /\ effects' = effects]_vars
    /\ [][\A t \in Tasks :
             effects'[t].inserts # effects[t].inserts => ~is_some(local[t].reply)]_vars

C17_Witness ==
    \E t, u \in Tasks :
        /\ outcome[t].exit = "ignored"
        /\ effects[t] = NoEffects
        /\ pc[u] = "check_processing"
        /\ local[u].message.mention
        /\ is_some(reply(local[u].message))
        /\ processing = <<>>
        /\ store = <<FirstConversation>>

\* C18: when the loaded snapshot lacks expert, jb or uwu, no task gets past
\* templating: a task leaving the history lookup returns; no completion call
\* is made, no keepalive or deleting task is started, no reply or warning is
\* sent (the pong, which is outside the pipeline, is the only message), the
\* store is as it was and the in-flight registry is empty.
C18_AbortAtTemplating ==
    ~AllSnippets =>
        /\ processing = <<>>
        /\ store = <<FirstConversation>>
        /\ \A t \in Tasks :
              /\ ~InHandleMessage(t)
              /\ effects[t].completion = 0
              /\ effects[t].registry = 0
              /\ effects[t].inserts = 0
              /\ effects[t].updates = 0
              /\ effects[t].sent > 0 => outcome[t].exit = "pong"
              /\ keepalive[t] = "none"
              /\ deleter[t] = NoDeleter
              /\ ~finished[t]
        /\ \A m \in channel : m = FirstBotMessage \/ m.content = PongText

C18_Witness ==
    /\ ~AllSnippets
    /\ \E t, u \in Tasks :
          /\ t # u
          /\ outcome[t].exit = "no prompt"
          /\ outcome[u].exit = "no prompt"
    /\ processing = <<>>
    /\ store = <<FirstConversation>>

\* C19: the stop flag changes only in a step of the main task, the return of
\* the completion call, and only from false to true; once it is set the
\* keepalive task does not come to send a typing indicator again, so it
\* sends at most the one it was about to send; a keepalive task that has
\* observed the flag set has stopped for good; and, the tasks being
\* scheduled fairly, a set flag leads to the keepalive task having stopped.
C19_FlagStopsKeepalive ==
    /\ [][\A t \in Tasks :
             finished'[t] # finished[t] =>
                 /\ ~finished[t]
                 /\ finished'[t]
                 /\ pc[t] = "await_completion"
                 /\ pc'[t] = "retain_processing"
                 /\ keepalive'[t] = keepalive[t]]_vars
    /\ [][\A t \in Tasks :
             (finished[t] /\ keepalive'[t] = "typing") => keepalive[t] = "typing"]_vars
    /\ [][\A t \in Tasks :
             keepalive[t] = "stopped" => keepalive'[t] = "stopped"]_vars
    /\ [](\A t \in Tasks : keepalive[t] = "stopped" => finished[t])
    /\ \A t \in Tasks : finished[t] ~> (keepalive[t] = "stopped")

C19_Witness ==
    \E t \in Tasks :
        /\ finished[t]
        /\ keepalive[t] = "typing"
        /\ pc[t] = "done"

\* C20: when a pipeline returns Ok from persistence, the store then holds a
\* Conversation keyed by the bot reply it sent whose messages end with its
\* user turn and its assistant turn.
C20_SuccessIsStored ==
    [][\A t \in Tasks :
          (pc[t] = "persist" /\ pc'[t] = "done" /\ outcome'[t].result = "Ok") =>
              \E i \in DOMAIN store' :
                  /\ store'[i].id = to_string(local[t].bot_msg_id)
                  /\ Len(store'[i].messages) >= 2
                  /\ SubSeq(store'[i].messages, Len(store'[i].messages) - 1,
                            Len(store'[i].messages)) = <<UserTurn(t), AssistantTurn(t)>>]_vars

====
